---- MODULE Spec2Model ----
(***************************************************************************)
(* Model of the evidence-string generation of eva-cttv-pipeline:           *)
(*   clinvar_to_evidence_strings.py  (Report, launch_pipeline,             *)
(*       clinvar_to_evidence_strings, skip_record, get_consequence_types,  *)
(*       create_traits, load_efo_mapping, convert_allele_origins)          *)
(*   consequence_type.py             (process_consequence_type_file_tsv)   *)
(*                                                                         *)
(* Text is modelled as a sequence of tokens: a token is a word (a string   *)
(* with no tab, comma, bar or trailing blank in it), a separator ("\t",    *)
(* ",", "|") or a blank (" ").  A Python str is the concatenation of its   *)
(* tokens; None is the value None.                                         *)
(***************************************************************************)
EXTENDS Integers, Sequences, FiniteSets, TLC

\* None where a str is expected.
None == "<None>"

\* None where a ConsequenceType is expected.
NoConsequence == [ensembl_gene_id |-> None, so_term |-> None]

\* None where a list is expected; like the empty list it is false in a
\* condition, and the code tests such values only by their truth or hands an
\* empty list on as None.
NoList == <<>>

-----------------------------------------------------------------------------
(* Strings                                                                 *)

\* str.lower() on the vocabulary of the model.
Lower(s) ==
    CASE s = "Pathogenic" -> "pathogenic"
      [] s = "PATHOGENIC" -> "pathogenic"
      [] s = "Benign"     -> "benign"
      [] s = "Somatic"    -> "somatic"
      [] s = "SOMATIC"    -> "somatic"
      [] s = "Germline"   -> "germline"
      [] s = "Unknown"    -> "unknown"
      [] s = "De Novo"    -> "de novo"
      [] s = "Foo"        -> "foo"
      [] s = "Long QT syndrome" -> "long qt syndrome"
      [] s = "Alpha"      -> "alpha"
      [] s = "Beta"       -> "beta"
      [] OTHER            -> s

\* The str a token sequence stands for.
RECURSIVE Str(_)
Str(toks) == IF toks = <<>> THEN "" ELSE Head(toks) \o Str(Tail(toks))

IsSpace(tok) == tok \in {" ", "\t", "\n"}

\* str.rstrip(): the trailing whitespace is removed.
RECURSIVE rstrip(_)
rstrip(toks) ==
    IF toks # <<>> /\ IsSpace(toks[Len(toks)])
    THEN rstrip(SubSeq(toks, 1, Len(toks) - 1))
    ELSE toks

\* str.split(sep): the pieces between the separators; never empty
\* ("".split(sep) is [""]).
RECURSIVE split(_, _)
split(toks, sep) ==
    IF \A i \in 1..Len(toks) : toks[i] # sep
    THEN << toks >>
    ELSE LET i == CHOOSE k \in 1..Len(toks) :
                      toks[k] = sep /\ \A j \in 1..(k - 1) : toks[j] # sep
         IN  << SubSeq(toks, 1, i - 1) >> \o split(SubSeq(toks, i + 1, Len(toks)), sep)

\* dict[key].append(value) on a defaultdict(list).
Append2(dict, key, value) ==
    IF key \in DOMAIN dict
    THEN [dict EXCEPT ![key] = Append(@, value)]
    ELSE dict @@ (key :> << value >>)

\* dict[key] += 1 on a defaultdict(int).
Incr(dict, key) ==
    IF key \in DOMAIN dict
    THEN [dict EXCEPT ![key] = @ + 1]
    ELSE dict @@ (key :> 1)

\* The empty dict.
EmptyDict == [k \in {} |-> 0]

\* dict.get(key, 0): reads a defaultdict(int) without inserting.
Count(dict, key) == IF key \in DOMAIN dict THEN dict[key] ELSE 0

-----------------------------------------------------------------------------
(* consequence_type.py                                                     *)

\* ConsequenceType(ensembl_gene_id, SoTerm(so_term))
ConsequenceType(ensembl_gene_id, so_term) ==
    [ensembl_gene_id |-> ensembl_gene_id, so_term |-> so_term]

process_gene(consequence_type_dict, variant_id, ensembl_gene_id, so_term) ==
    Append2(consequence_type_dict, variant_id, ConsequenceType(ensembl_gene_id, so_term))

\* One iteration of the loop over the lines of the file.
process_line(consequence_type_dict, raw_line) ==
    LET line      == rstrip(raw_line)
        line_list == split(line, "\t")
    IN  IF Len(line_list) < 6
        THEN consequence_type_dict
        ELSE LET variant_id      == Str(line_list[1])
                 ensembl_gene_id == Str(line_list[3])
                 so_term         == Str(line_list[5])
             IN  IF ensembl_gene_id = "NA"
                 THEN consequence_type_dict
                 ELSE process_gene(consequence_type_dict, variant_id,
                                   ensembl_gene_id, so_term)

RECURSIVE process_lines(_, _)
process_lines(consequence_type_dict, lines) ==
    IF lines = <<>> THEN consequence_type_dict
    ELSE process_lines(process_line(consequence_type_dict, Head(lines)), Tail(lines))

process_consequence_type_file_tsv(snp_2_gene_file) ==
    process_lines(EmptyDict, snp_2_gene_file)

-----------------------------------------------------------------------------
(* clinvar_to_evidence_strings.py: loading                                 *)

get_default_allowed_clinical_significance ==
    << "unknown", "untested", "non-pathogenic", "probable-non-pathogenic",
       "probable-pathogenic", "pathogenic", "drug-response", "drug response",
       "histocompatibility", "other", "benign", "protective", "not provided",
       "likely benign", "confers sensitivity", "uncertain significance",
       "likely pathogenic", "conflicting data from submitters", "risk factor",
       "association" >>

\* launch_pipeline: the allowed significances, from the comma-separated
\* argument or, when that is empty, the default list.
split_allowed(allowed_arg) ==
    IF allowed_arg # <<>>
    THEN LET parts == split(allowed_arg, ",")
         IN  [i \in 1..Len(parts) |-> Str(parts[i])]
    ELSE get_default_allowed_clinical_significance

\* x in list
InList(x, list) == \E i \in 1..Len(list) : list[i] = x

\* zip(ids, labels): as long as the shorter of the two.
Zip(ids, labels) ==
    [i \in 1..(IF Len(ids) < Len(labels) THEN Len(ids) ELSE Len(labels)) |->
        << ids[i], labels[i] >>]

\* The (ontology_id, ontology_label) pairs of one line that has an id field.
efo_pairs(line_list) ==
    LET ids    == split(line_list[2], "|")
        id_strs == [i \in 1..Len(ids) |-> Str(ids[i])]
        labels == IF Len(line_list) > 2
                  THEN LET ls == split(line_list[3], "|")
                       IN  [i \in 1..Len(ls) |-> Str(ls[i])]
                  ELSE [i \in 1..Len(ids) |-> None]
    IN  Zip(id_strs, labels)

\* dict[key].extend(values) on a defaultdict(list), one append per value.
RECURSIVE AppendAll(_, _, _)
AppendAll(dict, key, values) ==
    IF values = <<>> THEN dict
    ELSE AppendAll(Append2(dict, key, Head(values)), key, Tail(values))

\* load_efo_mapping: [raised |-> TRUE] for the ValueError, else the mapping.
RECURSIVE load_efo_lines(_, _)
load_efo_lines(trait_2_efo, lines) ==
    IF lines = <<>> THEN [raised |-> FALSE, trait_2_efo |-> trait_2_efo]
    ELSE LET line == rstrip(Head(lines))
         IN  IF line = <<>> \/ Head(line) = "#"
             THEN load_efo_lines(trait_2_efo, Tail(lines))
             ELSE LET line_list    == split(line, "\t")
                      clinvar_name == Lower(Str(line_list[1]))
                  IN  IF Len(line_list) > 1
                      THEN load_efo_lines(
                               AppendAll(trait_2_efo, clinvar_name, efo_pairs(line_list)),
                               Tail(lines))
                      ELSE [raised |-> TRUE, trait_2_efo |-> trait_2_efo]

load_efo_mapping(efo_mapping_file) == load_efo_lines(EmptyDict, efo_mapping_file)

-----------------------------------------------------------------------------
(* clinvar_to_evidence_strings.py: Report                                  *)

get_counters ==
    [n_processed_clinvar_records |-> 0,
     n_pathogenic_no_rs |-> 0,
     n_multiple_evidence_strings |-> 0,
     n_multiple_allele_origin |-> 0,
     n_germline_somatic |-> 0,
     n_records_no_recognised_allele_origin |-> 0,
     no_variant_to_ensg_mapping |-> 0,
     n_more_than_one_efo_term |-> 0,
     n_same_ref_alt |-> 0,
     n_missed_strings_unmapped_traits |-> 0,
     n_nsvs |-> 0,
     n_valid_rs_and_nsv |-> 0,
     n_nsv_skipped_clin_sig |-> 0,
     n_nsv_skipped_wrong_ref_alt |-> 0,
     record_counter |-> 0,
     n_total_clinvar_records |-> 0]

\* Report.__init__: trait_mappings is a deep copy of the argument.
NewReport(trait_mappings) ==
    [trait_mappings |-> trait_mappings,
     unrecognised_clin_sigs |-> {},
     ensembl_gene_id_uris |-> {},
     traits |-> {},
     n_unrecognised_allele_origin |-> EmptyDict,
     nsv_list |-> <<>>,
     unmapped_traits |-> EmptyDict,
     evidence_string_list |-> <<>>,
     evidence_list |-> <<>>,
     counters |-> get_counters]

\* report.counters[name] += by
AddCounter(report, name, by) == [report EXCEPT !.counters[name] = @ + by]

\* A faulty remove_trait_mapping: the used name stays in the working set.
remove_trait_mapping_keeps(report, trait_name) == report

\* Report.remove_trait_mapping
remove_trait_mapping(report, trait_name) ==
    IF trait_name \in DOMAIN report.trait_mappings
    THEN [report EXCEPT !.trait_mappings =
              [k \in (DOMAIN report.trait_mappings) \ {trait_name} |->
                  report.trait_mappings[k]]]
    ELSE report

\* Report.add_evidence_string, when the evidence string validates.
add_evidence_string(report, ev_string) ==
    [report EXCEPT !.evidence_string_list = Append(@, ev_string)]

-----------------------------------------------------------------------------
(* clinvar_to_evidence_strings.py: the join                                *)

\* A faulty convert_allele_origins: the raw strings are not lower-cased.
convert_allele_origins_no_fold(allele_origins) ==
    LET as_set == {allele_origins[i] : i \in 1..Len(allele_origins)}
    IN  (IF InList("somatic", allele_origins) THEN << "somatic" >> ELSE <<>>)
        \o
        (IF as_set \cap {"biparental", "de novo", "germline", "inherited",
                         "maternal", "not applicable", "not provided",
                         "paternal", "uniparental", "unknown"} # {}
         THEN << "germline" >> ELSE <<>>)

convert_allele_origins(allele_origins) ==
    LET orig_allele_origins == [i \in 1..Len(allele_origins) |-> Lower(allele_origins[i])]
        as_set == {orig_allele_origins[i] : i \in 1..Len(orig_allele_origins)}
    IN  (IF InList("somatic", orig_allele_origins) THEN << "somatic" >> ELSE <<>>)
        \o
        (IF as_set \cap {"biparental", "de novo", "germline", "inherited",
                         "maternal", "not applicable", "not provided",
                         "paternal", "uniparental", "unknown"} # {}
         THEN << "germline" >> ELSE <<>>)

\* "{}:{}-{}:1/{}".format(chr, start, stop, alt_str)
coord_id(clinvar_record_measure) ==
    LET alt_str == IF clinvar_record_measure.alt # None
                   THEN clinvar_record_measure.alt ELSE "-"
    IN  clinvar_record_measure.chr \o ":" \o ToString(clinvar_record_measure.start)
        \o "-" \o ToString(clinvar_record_measure.stop) \o ":1/" \o alt_str

\* A faulty get_consequence_types: the nsv id is tried before the rs id.
get_consequence_types_nsv_first(clinvar_record_measure, consequence_type_dict) ==
    LET consequence_type_dict_id ==
            IF clinvar_record_measure.nsv_id # None
               /\ clinvar_record_measure.nsv_id \in DOMAIN consequence_type_dict
            THEN clinvar_record_measure.nsv_id
            ELSE IF clinvar_record_measure.rs_id # None
                    /\ clinvar_record_measure.rs_id \in DOMAIN consequence_type_dict
            THEN clinvar_record_measure.rs_id
            ELSE IF coord_id(clinvar_record_measure) \in DOMAIN consequence_type_dict
            THEN coord_id(clinvar_record_measure)
            ELSE IF clinvar_record_measure.clinvar_record.accession
                        \in DOMAIN consequence_type_dict
            THEN clinvar_record_measure.clinvar_record.accession
            ELSE None
    IN  IF consequence_type_dict_id # None
        THEN consequence_type_dict[consequence_type_dict_id]
        ELSE << NoConsequence >>

get_consequence_types(clinvar_record_measure, consequence_type_dict) ==
    LET consequence_type_dict_id ==
            IF clinvar_record_measure.rs_id # None
               /\ clinvar_record_measure.rs_id \in DOMAIN consequence_type_dict
            THEN clinvar_record_measure.rs_id
            ELSE IF clinvar_record_measure.nsv_id # None
                    /\ clinvar_record_measure.nsv_id \in DOMAIN consequence_type_dict
            THEN clinvar_record_measure.nsv_id
            ELSE IF coord_id(clinvar_record_measure) \in DOMAIN consequence_type_dict
            THEN coord_id(clinvar_record_measure)
            ELSE IF clinvar_record_measure.clinvar_record.accession
                        \in DOMAIN consequence_type_dict
            THEN clinvar_record_measure.clinvar_record.accession
            ELSE None
    IN  IF consequence_type_dict_id # None
        THEN consequence_type_dict[consequence_type_dict_id]
        ELSE << NoConsequence >>

\* trait.map_efo: the first name of the group, in list order and compared
\* lower-cased, that has at least one ontology entry.  The trait string it
\* returns is that lower-cased name, the key of the mapping.
map_efo(trait_2_efo_dict, name_list) ==
    LET hits == {i \in 1..Len(name_list) :
                    /\ Lower(name_list[i]) \in DOMAIN trait_2_efo_dict
                    /\ trait_2_efo_dict[Lower(name_list[i])] # <<>>}
    IN  IF hits = {} THEN [trait_string |-> None, mappings |-> NoList]
        ELSE LET i == CHOOSE k \in hits : \A j \in hits : k <= j
             IN  [trait_string |-> Lower(name_list[i]),
                  mappings     |-> trait_2_efo_dict[Lower(name_list[i])]]

\* trait.Trait(clinvar_name, ontology_id, ontology_label, trait_counter)
Trait(clinvar_name, ontology_id, ontology_label, trait_counter) ==
    [clinvar_name |-> clinvar_name, ontology_id |-> ontology_id,
     ontology_label |-> ontology_label, trait_counter |-> trait_counter]

\* NoList, or the non-empty list of the traits of one name group.
create_trait_list(name_list, trait_2_efo_dict, trait_counter) ==
    LET m == map_efo(trait_2_efo_dict, name_list)
    IN  IF m.mappings = NoList THEN NoList
        ELSE LET new_trait_list ==
                     [i \in 1..Len(m.mappings) |->
                         Trait(m.trait_string, m.mappings[i][1], m.mappings[i][2],
                               trait_counter)]
             IN  IF new_trait_list = <<>> THEN NoList ELSE new_trait_list

\* report.unmapped_traits[name] += 1 for every name of the list
RECURSIVE count_unmapped(_, _)
count_unmapped(report, name_list) ==
    IF name_list = <<>> THEN report
    ELSE count_unmapped([report EXCEPT !.unmapped_traits = Incr(@, Head(name_list))],
                        Tail(name_list))

\* create_traits from group number trait_counter (0-based) on:
\* [traits |-> the traits, report |-> the report after the bookkeeping].
RECURSIVE create_traits_from(_, _, _, _, _)
create_traits_from(clinvar_traits, trait_counter, trait_2_efo_dict, traits, report) ==
    IF trait_counter >= Len(clinvar_traits)
    THEN [traits |-> traits, report |-> report]
    ELSE LET name_list      == clinvar_traits[trait_counter + 1]
             new_trait_list == create_trait_list(name_list, trait_2_efo_dict, trait_counter)
         IN  IF new_trait_list # NoList
             THEN create_traits_from(clinvar_traits, trait_counter + 1, trait_2_efo_dict,
                                     traits \o new_trait_list, report)
             ELSE create_traits_from(clinvar_traits, trait_counter + 1, trait_2_efo_dict,
                                     traits,
                                     count_unmapped(
                                         AddCounter(report, "n_missed_strings_unmapped_traits", 1),
                                         name_list))

create_traits(clinvar_traits, trait_2_efo_dict, report) ==
    create_traits_from(clinvar_traits, 0, trait_2_efo_dict, <<>>, report)

\* A faulty skip_record: a significance skip is counted whether or not the
\* measure has an nsv id.
skip_record_counts_every_skip(clinvar_record, clinvar_record_measure, consequence_type, allele_origin, allowed_clinical_significance, report) ==
    IF ~InList(Lower(clinvar_record.clinical_significance), allowed_clinical_significance)
    THEN [skip   |-> TRUE,
          report |-> AddCounter(report, "n_nsv_skipped_clin_sig", 1)]
    ELSE IF consequence_type = NoConsequence
    THEN [skip   |-> TRUE,
          report |-> AddCounter(report, "no_variant_to_ensg_mapping", 1)]
    ELSE IF allele_origin \notin {"germline", "somatic"}
    THEN [skip   |-> TRUE,
          report |-> [report EXCEPT !.n_unrecognised_allele_origin = Incr(@, allele_origin)]]
    ELSE [skip |-> FALSE, report |-> report]

\* A faulty skip_record: the absent consequence is tested before the
\* significance.
skip_record_consequence_first(clinvar_record, clinvar_record_measure, consequence_type, allele_origin, allowed_clinical_significance, report) ==
    IF consequence_type = NoConsequence
    THEN [skip   |-> TRUE,
          report |-> AddCounter(report, "no_variant_to_ensg_mapping", 1)]
    ELSE IF ~InList(Lower(clinvar_record.clinical_significance), allowed_clinical_significance)
    THEN [skip   |-> TRUE,
          report |-> IF clinvar_record_measure.nsv_id # None
                     THEN AddCounter(report, "n_nsv_skipped_clin_sig", 1)
                     ELSE report]
    ELSE IF allele_origin \notin {"germline", "somatic"}
    THEN [skip   |-> TRUE,
          report |-> [report EXCEPT !.n_unrecognised_allele_origin = Incr(@, allele_origin)]]
    ELSE [skip |-> FALSE, report |-> report]

\* A faulty skip_record: every test that matches is counted, not only the
\* first.
skip_record_counts_all_matches(clinvar_record, clinvar_record_measure, consequence_type, allele_origin, allowed_clinical_significance, report) ==
    LET sig_skip == ~InList(Lower(clinvar_record.clinical_significance), allowed_clinical_significance)
        r1 == IF sig_skip /\ clinvar_record_measure.nsv_id # None
              THEN AddCounter(report, "n_nsv_skipped_clin_sig", 1) ELSE report
        r2 == IF consequence_type = NoConsequence
              THEN AddCounter(r1, "no_variant_to_ensg_mapping", 1) ELSE r1
        r3 == IF allele_origin \notin {"germline", "somatic"}
              THEN [r2 EXCEPT !.n_unrecognised_allele_origin = Incr(@, allele_origin)]
              ELSE r2
    IN  [skip   |-> sig_skip \/ consequence_type = NoConsequence
                    \/ allele_origin \notin {"germline", "somatic"},
         report |-> r3]

\* skip_record: [skip |-> its result, report |-> the report after the call].
skip_record(clinvar_record, clinvar_record_measure, consequence_type, allele_origin, allowed_clinical_significance, report) ==
    IF ~InList(Lower(clinvar_record.clinical_significance), allowed_clinical_significance)
    THEN [skip   |-> TRUE,
          report |-> IF clinvar_record_measure.nsv_id # None
                     THEN AddCounter(report, "n_nsv_skipped_clin_sig", 1)
                     ELSE report]
    ELSE IF consequence_type = NoConsequence
    THEN [skip   |-> TRUE,
          report |-> AddCounter(report, "no_variant_to_ensg_mapping", 1)]
    ELSE IF allele_origin \notin {"germline", "somatic"}
    THEN [skip   |-> TRUE,
          report |-> [report EXCEPT !.n_unrecognised_allele_origin = Incr(@, allele_origin)]]
    ELSE [skip |-> FALSE, report |-> report]

\* itertools.product(a, b, c), the last factor varying fastest.
Product(a, b, c) ==
    [i \in 1..(Len(a) * Len(b) * Len(c)) |->
        << a[((i - 1) \div (Len(b) * Len(c))) + 1],
           b[(((i - 1) \div Len(c)) % Len(b)) + 1],
           c[((i - 1) % Len(c)) + 1] >>]

\* evidence_strings.CTTVGeneticsEvidenceString / CTTVSomaticEvidenceString
EvidenceString(type, clinvar_record, clinvar_record_measure, trait, consequence_type) ==
    [type |-> type, accession |-> clinvar_record.accession,
     rs_id |-> clinvar_record_measure.rs_id, nsv_id |-> clinvar_record_measure.nsv_id,
     trait |-> trait, consequence_type |-> consequence_type]

get_ensembl_gene_id_uri(ensembl_gene_id) ==
    "http://identifiers.org/ensembl/" \o ensembl_gene_id

\* Lines 259-277: a tuple that was not skipped and whose evidence string validates.
emit(report, clinvar_record, clinvar_record_measure, consequence_type, trait, allele_origin) ==
    LET evidence_string ==
            EvidenceString(IF allele_origin = "germline" THEN "genetics" ELSE "somatic",
                           clinvar_record, clinvar_record_measure, trait, consequence_type)
        r1 == add_evidence_string(report, evidence_string)
        r2 == [r1 EXCEPT !.evidence_list =
                   Append(@, << clinvar_record.accession, clinvar_record_measure.rs_id,
                                trait.clinvar_name, trait.ontology_id >>)]
        r3 == AddCounter(r2, "n_valid_rs_and_nsv",
                         IF clinvar_record_measure.nsv_id # None THEN 1 ELSE 0)
        r4 == [r3 EXCEPT !.traits = @ \cup {trait.ontology_id}]
        r5 == remove_trait_mapping(r4, trait.clinvar_name)
    IN  [r5 EXCEPT !.ensembl_gene_id_uris =
             @ \cup {get_ensembl_gene_id_uri(consequence_type.ensembl_gene_id)}]

\* Lines 250-277, the loop over the tuples of one measure.  st is
\* [report, n_ev_strings_per_record, exited]; invalid_at is the number, among
\* the add_evidence_string calls of the record, of the first evidence string
\* that does not validate (0: all validate); sys.exit(1) sets exited.
RECURSIVE tuple_loop(_, _, _, _, _, _)
tuple_loop(tuples, clinvar_record, clinvar_record_measure, allowed_clinical_significance, st, invalid_at) ==
    IF tuples = <<>> THEN st
    ELSE LET consequence_type == Head(tuples)[1]
             trait            == Head(tuples)[2]
             allele_origin    == Head(tuples)[3]
             sk == skip_record(clinvar_record, clinvar_record_measure, consequence_type,
                               allele_origin, allowed_clinical_significance, st.report)
         IN  IF sk.skip
             THEN tuple_loop(Tail(tuples), clinvar_record, clinvar_record_measure,
                             allowed_clinical_significance,
                             [st EXCEPT !.report = sk.report], invalid_at)
             ELSE IF st.n_ev_strings_per_record + 1 = invalid_at
             THEN [st EXCEPT !.report = sk.report, !.exited = TRUE]
             ELSE tuple_loop(Tail(tuples), clinvar_record, clinvar_record_measure,
                             allowed_clinical_significance,
                             [st EXCEPT
                                 !.report = emit(sk.report, clinvar_record,
                                                 clinvar_record_measure, consequence_type,
                                                 trait, allele_origin),
                                 !.n_ev_strings_per_record = @ + 1],
                             invalid_at)

\* append_nsv
append_nsv(nsv_list, clinvar_record_measure) ==
    IF clinvar_record_measure.nsv_id # None
    THEN Append(nsv_list, clinvar_record_measure.nsv_id)
    ELSE nsv_list

\* A faulty body of the loop over the measures: the traits are resolved
\* against the report's working copy of the mapping, which shrinks as names are
\* used.
measure_body_resolves_in_copy(clinvar_record, clinvar_record_measure, mappings, allowed_clinical_significance, st, invalid_at) ==
    LET r1 == AddCounter(st.report, "n_nsvs",
                         IF clinvar_record_measure.nsv_id # None THEN 1 ELSE 0)
        r2 == [r1 EXCEPT !.nsv_list = append_nsv(@, clinvar_record_measure)]
        r3 == AddCounter(r2, "n_multiple_allele_origin",
                         IF Len(clinvar_record.allele_origins) > 1 THEN 1 ELSE 0)
        ct == create_traits(clinvar_record.traits, r3.trait_mappings, r3)
        converted_allele_origins == convert_allele_origins(clinvar_record.allele_origins)
        st1 == tuple_loop(Product(get_consequence_types(clinvar_record_measure,
                                                        mappings.consequence_type_dict),
                                  ct.traits, converted_allele_origins),
                          clinvar_record, clinvar_record_measure,
                          allowed_clinical_significance,
                          [st EXCEPT !.report = ct.report], invalid_at)
    IN  IF st1.exited THEN st1
        ELSE IF st1.n_ev_strings_per_record > 0
        THEN [st1 EXCEPT !.report =
                 AddCounter(AddCounter(@, "n_processed_clinvar_records", 1),
                            "n_multiple_evidence_strings",
                            IF st1.n_ev_strings_per_record > 1 THEN 1 ELSE 0)]
        ELSE st1

\* Lines 244-282, the body of the loop over the measures, for one measure.
measure_body(clinvar_record, clinvar_record_measure, mappings, allowed_clinical_significance, st, invalid_at) ==
    LET r1 == AddCounter(st.report, "n_nsvs",
                         IF clinvar_record_measure.nsv_id # None THEN 1 ELSE 0)
        r2 == [r1 EXCEPT !.nsv_list = append_nsv(@, clinvar_record_measure)]
        r3 == AddCounter(r2, "n_multiple_allele_origin",
                         IF Len(clinvar_record.allele_origins) > 1 THEN 1 ELSE 0)
        ct == create_traits(clinvar_record.traits, mappings.trait_2_efo, r3)
        converted_allele_origins == convert_allele_origins(clinvar_record.allele_origins)
        st1 == tuple_loop(Product(get_consequence_types(clinvar_record_measure,
                                                        mappings.consequence_type_dict),
                                  ct.traits, converted_allele_origins),
                          clinvar_record, clinvar_record_measure,
                          allowed_clinical_significance,
                          [st EXCEPT !.report = ct.report], invalid_at)
    IN  IF st1.exited THEN st1
        ELSE IF st1.n_ev_strings_per_record > 0
        THEN [st1 EXCEPT !.report =
                 AddCounter(AddCounter(@, "n_processed_clinvar_records", 1),
                            "n_multiple_evidence_strings",
                            IF st1.n_ev_strings_per_record > 1 THEN 1 ELSE 0)]
        ELSE st1

RECURSIVE measure_loop(_, _, _, _, _, _)
measure_loop(measures, clinvar_record, mappings, allowed_clinical_significance, st, invalid_at) ==
    IF measures = <<>> \/ st.exited THEN st
    ELSE measure_loop(Tail(measures), clinvar_record, mappings,
                      allowed_clinical_significance,
                      measure_body(clinvar_record, Head(measures), mappings,
                                   allowed_clinical_significance, st, invalid_at),
                      invalid_at)

\* Lines 236-282, the body of the loop over the input records, for one record.
record_body(clinvar_record, mappings, allowed_clinical_significance, report, invalid_at) ==
    measure_loop(clinvar_record.measures, clinvar_record, mappings,
                 allowed_clinical_significance,
                 [report |-> AddCounter(report, "record_counter", 1),
                  n_ev_strings_per_record |-> 0,
                  exited |-> FALSE],
                 invalid_at)

-----------------------------------------------------------------------------
(* Inputs of a run                                                         *)

\* The most input records a run of the model reads.
MaxRecords == 2

\* The gene/consequence mapping file of the runs.
SnpFile ==
    << << "rs1", "\t", "X", "\t", "ENSG1", "\t", "Y", "\t", "missense_variant", "\t", "Z", "\n" >>,
       << "rs1", "\t", "X", "\t", "ENSG2", "\t", "Y", "\t", "stop_gained", "\t", "Z", "\n" >>,
       << "rs7", "\t", "X", "\t", "NA", "\t", "Y", "\t", "intron_variant", "\t", "Z", "\n" >>,
       << "nsv1", "\t", "X", "\t", "ENSG3", "\t", "Y", "\t", "frameshift_variant", "\t", "Z", "\n" >> >>

\* The EFO mapping files of the runs: one that loads, one with a line that
\* has a trait name and no mapping.
GoodEfoFile ==
    << << "#", "clinvar_trait", "\t", "efo", "\n" >>,
       << "\n" >>,
       << "long qt syndrome", "\t", "EFO:0000768", "\t", "Long QT syndrome", "\n" >>,
       << "Alpha", "\t", "EFO:1", "|", "EFO:2", "\t", "alpha 1", "|", "alpha 2", "\n" >>,
       << "beta", "\t", "EFO:3", "\n" >> >>

BadEfoFile ==
    << << "long qt syndrome", "\t", "EFO:0000768", "\t", "Long QT syndrome", "\n" >>,
       << "gamma", "\n" >> >>

EfoFiles == {GoodEfoFile, BadEfoFile}

\* The --allowed-clinical-significance arguments of the runs; <<>> is none given.
AllowedArgs ==
    { <<>>,
      << "pathogenic" >>,
      << "Pathogenic", ",", "benign" >> }

\* clinvar.ClinvarRecordMeasure: the fields the join reads.
Measure(rs_id, nsv_id, chr, start, stop, alt, accession) ==
    [rs_id |-> rs_id, nsv_id |-> nsv_id, chr |-> chr, start |-> start, stop |-> stop,
     alt |-> alt, clinvar_record |-> [accession |-> accession]]

\* clinvar.ClinvarRecord: the fields the join reads.
ClinvarRecord(accession, clinical_significance, allele_origins, traits, measures) ==
    [accession |-> accession, clinical_significance |-> clinical_significance,
     allele_origins |-> allele_origins, traits |-> traits, measures |-> measures]

\* The value of clinvar_record before the first record is read.
NoRecord == ClinvarRecord(None, None, <<>>, <<>>, <<>>)

MeasureLists ==
    LET rs   == Measure("rs1", None, "1", 100, 100, "A", "RCV1")
        nsv  == Measure(None, "nsv1", "1", 200, 300, None, "RCV1")
        miss == Measure("rs9", None, "2", 5, 6, None, "RCV1")
    IN  { << rs >>, << nsv >>, << miss >>, << rs, nsv >> }

\* (allele origins, trait name groups) of the input records.
OriginsAndTraits ==
    { << << "germline" >>,            << << "Long QT syndrome" >> >> >>,
      << << "Somatic", "germline" >>, << << "Long QT syndrome" >> >> >>,
      << << "Somatic", "Unknown" >>,  << << "Gamma" >>, << "Delta", "Alpha" >> >> >>,
      << << "Foo" >>,                 << << "Long QT syndrome" >> >> >>,
      << << "germline" >>,            << << "Gamma", "Delta" >> >> >> }

Significances == {"Pathogenic", "benign"}

InputRecords ==
    { ClinvarRecord("RCV1", sig, ot[1], ot[2], ms) :
        sig \in Significances, ot \in OriginsAndTraits, ms \in MeasureLists }

\* Which add_evidence_string call of a record is the first whose evidence
\* string fails validation; 0 when all validate.
InvalidAt == {0, 1, 2, 3}

-----------------------------------------------------------------------------
(* The run                                                                 *)

VARIABLES
    pc,                             \* "start", "run", "done", "failed"
    allowed_clinical_significance,  \* launch_pipeline's list
    mappings,                       \* get_mappings: trait_2_efo, consequence_type_dict
    report,                         \* the Report of the run
    clinvar_record,                 \* the record read last
    call                            \* a single call of a function, with its result

vars == << pc, allowed_clinical_significance, mappings, report, clinvar_record, call >>

run_vars == << pc, allowed_clinical_significance, mappings, report, clinvar_record >>

NoMappings == [trait_2_efo |-> EmptyDict, consequence_type_dict |-> EmptyDict]

NoCall == [fn |-> "none"]

InitRun ==
    /\ pc = "start"
    /\ allowed_clinical_significance = <<>>
    /\ mappings = NoMappings
    /\ report = NewReport(EmptyDict)
    /\ clinvar_record = NoRecord

Init == InitRun /\ call = NoCall

\* launch_pipeline up to the first input record: the allowed list, the
\* mappings (load_efo_mapping may raise) and the Report.
Launch(allowed_arg, efo_mapping_file, snp_2_gene_file) ==
    /\ pc = "start"
    /\ LET efo == load_efo_mapping(efo_mapping_file)
       IN  /\ allowed_clinical_significance' = split_allowed(allowed_arg)
           /\ IF efo.raised
              THEN /\ pc' = "failed"
                   /\ UNCHANGED << mappings, report >>
              ELSE /\ pc' = "run"
                   /\ mappings' =
                          [trait_2_efo |-> efo.trait_2_efo,
                           consequence_type_dict |->
                               process_consequence_type_file_tsv(snp_2_gene_file)]
                   /\ report' = NewReport(efo.trait_2_efo)
    /\ UNCHANGED << clinvar_record, call >>

\* A faulty loop over the input records: the run goes on after an evidence
\* string failed validation.
ProcessRecord_keeps_running(cellbase_record, invalid_at) ==
    /\ pc = "run"
    /\ report.counters.record_counter < MaxRecords
    /\ LET st == record_body(cellbase_record, mappings, allowed_clinical_significance,
                             report, invalid_at)
       IN  /\ report' = st.report
           /\ pc' = "run"
    /\ clinvar_record' = cellbase_record
    /\ UNCHANGED << allowed_clinical_significance, mappings, call >>

\* One iteration of the loop over the input records; sys.exit(1) in
\* add_evidence_string ends the run.
ProcessRecord(cellbase_record, invalid_at) ==
    /\ pc = "run"
    /\ report.counters.record_counter < MaxRecords
    /\ LET st == record_body(cellbase_record, mappings, allowed_clinical_significance,
                             report, invalid_at)
       IN  /\ report' = st.report
           /\ pc' = IF st.exited THEN "failed" ELSE "run"
    /\ clinvar_record' = cellbase_record
    /\ UNCHANGED << allowed_clinical_significance, mappings, call >>

\* The input is exhausted: output(report, dir_out).
Output ==
    /\ pc = "run"
    /\ pc' = "done"
    /\ UNCHANGED << allowed_clinical_significance, mappings, report, clinvar_record, call >>

Next ==
    \/ \E a \in AllowedArgs, e \in EfoFiles : Launch(a, e, SnpFile)
    \/ \E r \in InputRecords, i \in InvalidAt : ProcessRecord(r, i)
    \/ Output

Spec == Init /\ [][Next]_vars

-----------------------------------------------------------------------------
(* Vocabulary of the properties of a run                                   *)

\* This step processes one input record (it is then clinvar_record').
Processed == pc = "run" /\ report'.counters.record_counter = report.counters.record_counter + 1

\* ... and every evidence string generated from it validated.
ProcessedValid == Processed /\ pc' = "run"

\* The evidence records this step appends to the emitted list.
NewEvidence == Len(report'.evidence_string_list) - Len(report.evidence_string_list)

\* How much a counter grows in this step.
Grows(name) == report'.counters[name] - report.counters[name]

\* The significance s is in the allowed set, compared ignoring letter case.
InAllowedSet(s, allowed) == \E i \in 1..Len(allowed) : Lower(allowed[i]) = Lower(s)

\* The four fallback keys of a measure.
FallbackKeys(m) ==
    ({m.rs_id, m.nsv_id} \ {None}) \cup {coord_id(m), m.clinvar_record.accession}

\* The lookup of the measure fails on every fallback key.
LookupFails(m) == FallbackKeys(m) \cap DOMAIN mappings.consequence_type_dict = {}

\* c, t, o of a measure of a record: the consequences the lookup returns (the
\* absent one counts as one), the resolved traits, the classified origins.
NConsequences(m) == Len(get_consequence_types(m, mappings.consequence_type_dict))

NTraits(rec) == Len(create_traits(rec.traits, mappings.trait_2_efo, report).traits)

NOrigins(rec) == Len(convert_allele_origins(rec.allele_origins))

\* The tuples of the Cartesian product of one measure.
NTuples(rec, m) == NConsequences(m) * NTraits(rec) * NOrigins(rec)

\* The sum of a list of numbers.
RECURSIVE Sum(_)
Sum(numbers) == IF numbers = <<>> THEN 0 ELSE Head(numbers) + Sum(Tail(numbers))

\* The name groups of a record that fail resolution.
FailingGroups(rec) ==
    {g \in 1..Len(rec.traits) :
        create_trait_list(rec.traits[g], mappings.trait_2_efo, g - 1) = NoList}

\* How often a name occurs in the failing groups of a record.
RECURSIVE Occurrences(_, _)
Occurrences(name, names) ==
    IF names = <<>> THEN 0
    ELSE (IF Head(names) = name THEN 1 ELSE 0) + Occurrences(name, Tail(names))

RECURSIVE OccurrencesInGroups(_, _, _)
OccurrencesInGroups(name, rec, groups) ==
    IF groups = {} THEN 0
    ELSE LET g == CHOOSE x \in groups : TRUE
         IN  Occurrences(name, rec.traits[g]) + OccurrencesInGroups(name, rec, groups \ {g})

\* Every trait name of the input records.
TraitNames == {"Long QT syndrome", "Gamma", "Delta", "Alpha"}

-----------------------------------------------------------------------------
(* C1 *)

\* C1 (as stated): a record with exactly one measure, a clinical significance
\* in the allowed set, c >= 1 resolved consequences, t resolved traits and o
\* classified origins, all of whose evidence strings validate, appends exactly
\* c*t*o evidence records and adds 1 to n_multiple_evidence_strings iff
\* c*t*o > 1.
C1_CartesianProduct ==
    [][ (/\ ProcessedValid
         /\ Len(clinvar_record'.measures) = 1
         /\ InAllowedSet(clinvar_record'.clinical_significance, allowed_clinical_significance)
         /\ ~LookupFails(clinvar_record'.measures[1]))
        => LET n == NTuples(clinvar_record', clinvar_record'.measures[1])
           IN  /\ NewEvidence = n
               /\ Grows("n_multiple_evidence_strings") = (IF n > 1 THEN 1 ELSE 0) ]_vars

-----------------------------------------------------------------------------
(* C2 *)

-----------------------------------------------------------------------------
(* C3 *)

-----------------------------------------------------------------------------
(* C5 *)

\* C5 (as stated): processing a record from which nothing is emitted strictly
\* grows one of the drop counters or drop maps of the report.
C5_NoSilentDrop ==
    [][ (ProcessedValid /\ NewEvidence = 0)
        => \/ Grows("n_nsv_skipped_clin_sig") > 0
           \/ Grows("no_variant_to_ensg_mapping") > 0
           \/ Grows("n_missed_strings_unmapped_traits") > 0
           \/ Grows("n_records_no_recognised_allele_origin") > 0
           \/ report'.unmapped_traits # report.unmapped_traits
           \/ report'.n_unrecognised_allele_origin # report.n_unrecognised_allele_origin ]_vars

-----------------------------------------------------------------------------
(* C7 *)

\* C7 (as stated): for one input record, n_missed_strings_unmapped_traits
\* grows by one per name group that fails resolution, and unmapped_traits[name]
\* by one per occurrence of the name in such a group, however many measures
\* the record has.
C7_UnmappedOncePerGroup ==
    [][ ProcessedValid
        => /\ Grows("n_missed_strings_unmapped_traits")
                  = Cardinality(FailingGroups(clinvar_record'))
           /\ \A name \in TraitNames :
                  Count(report'.unmapped_traits, name) - Count(report.unmapped_traits, name)
                      = OccurrencesInGroups(name, clinvar_record',
                                            FailingGroups(clinvar_record')) ]_vars

-----------------------------------------------------------------------------
(* C8 *)

\* The display names of the traits of the emitted evidence records.
UsedTraitNames ==
    {report.evidence_string_list[i].trait.clinvar_name :
        i \in 1..Len(report.evidence_string_list)}

\* C8: the report's not-yet-used trait mappings are the loaded mappings minus
\* exactly the entries whose name is the display name of the trait of an
\* emitted evidence record, and removing an absent name changes nothing.
C8_UnusedTraitMappings ==
    /\ DOMAIN report.trait_mappings = (DOMAIN mappings.trait_2_efo) \ UsedTraitNames
    /\ \A k \in DOMAIN report.trait_mappings :
           report.trait_mappings[k] = mappings.trait_2_efo[k]
    /\ \A name \in {Lower(n) : n \in TraitNames} \cup {"beta"} :
           name \notin DOMAIN report.trait_mappings
               => remove_trait_mapping(report, name) = report

\* Evidence was emitted for two of the three loaded names, and the third is
\* still in the working set.
C8_Witness ==
    /\ report.evidence_string_list # <<>>
    /\ UsedTraitNames = {"alpha", "long qt syndrome"}
    /\ DOMAIN report.trait_mappings = {"beta"}

-----------------------------------------------------------------------------
(* Single calls of the pure functions.  Each specification below draws the *)
(* arguments of one function in its initial state and applies the function *)
(* in its action; the run itself stays in its initial state.               *)

\* The sequences over S of length at most n.
SeqsUpTo(S, n) == UNION {[1..k -> S] : k \in 0..n}

\* ---- convert_allele_origins ----

\* The longest list of raw allele origins.
MaxOrigins == 3

\* How often convert_allele_origins is applied in a row: to the raw origins,
\* then to its own result.
MaxApplications == 2

OriginStrings == {"somatic", "Somatic", "germline", "Unknown", "maternal", "Foo"}

InitOrigins ==
    /\ InitRun
    /\ call \in {[fn |-> "convert_allele_origins", arg |-> a, rets |-> <<>>] :
                    a \in SeqsUpTo(OriginStrings, MaxOrigins)}

CallConvertAlleleOrigins ==
    /\ call.fn = "convert_allele_origins"
    /\ Len(call.rets) < MaxApplications
    /\ call' = [call EXCEPT !.rets =
                   Append(@, convert_allele_origins(IF @ = <<>> THEN call.arg
                                                    ELSE @[Len(@)]))]
    /\ UNCHANGED run_vars

SpecOrigins == InitOrigins /\ [][CallConvertAlleleOrigins]_vars

\* ---- get_consequence_types ----

\* One line per kind of key: rs id, nsv id, coordinate key with an
\* alternate allele, coordinate key without one, accession.
KeyLines ==
    << << "rs1", "\t", "X", "\t", "ENSG1", "\t", "Y", "\t", "missense_variant", "\t", "Z", "\n" >>,
       << "nsv1", "\t", "X", "\t", "ENSG2", "\t", "Y", "\t", "stop_gained", "\t", "Z", "\n" >>,
       << "1:100-100:1/A", "\t", "X", "\t", "ENSG3", "\t", "Y", "\t", "intron_variant", "\t", "Z", "\n" >>,
       << "1:100-100:1/-", "\t", "X", "\t", "ENSG4", "\t", "Y", "\t", "stop_lost", "\t", "Z", "\n" >>,
       << "RCV1", "\t", "X", "\t", "ENSG5", "\t", "Y", "\t", "start_lost", "\t", "Z", "\n" >> >>

\* The file made of the lines of KeyLines whose numbers are in S.
KeyFile(S) ==
    LET F[i \in 0..Len(KeyLines)] ==
            IF i = 0 THEN <<>>
            ELSE IF i \in S THEN Append(F[i - 1], KeyLines[i]) ELSE F[i - 1]
    IN  F[Len(KeyLines)]

LookupMeasures ==
    { Measure(rs, nsv, co[1], co[2], co[3], co[4], acc) :
        rs \in {None, "rs1", "rs9"},
        nsv \in {None, "nsv1", "nsv9"},
        co \in { << "1", 100, 100, "A" >>, << "1", 100, 100, None >>, << "2", 5, 6, "A" >> },
        acc \in {"RCV1", "RCV9"} }

InitLookup ==
    /\ InitRun
    /\ call \in {[fn |-> "get_consequence_types",
                  arg |-> [clinvar_record_measure |-> m,
                           consequence_type_dict |->
                               process_consequence_type_file_tsv(KeyFile(S))],
                  ret |-> <<>>, done |-> FALSE] :
                    m \in LookupMeasures, S \in SUBSET (1..Len(KeyLines))}

CallGetConsequenceTypes ==
    /\ call.fn = "get_consequence_types"
    /\ ~call.done
    /\ call' = [call EXCEPT
                   !.ret = get_consequence_types(call.arg.clinvar_record_measure,
                                                 call.arg.consequence_type_dict),
                   !.done = TRUE]
    /\ UNCHANGED run_vars

SpecLookup == InitLookup /\ [][CallGetConsequenceTypes]_vars

\* ---- launch_pipeline's list and skip_record ----

SkipSignificances == {"Pathogenic", "pathogenic", "PATHOGENIC", "benign", "affects"}

SkipAllowedArgs ==
    { <<>>,
      << "pathogenic" >>,
      << "Pathogenic" >>,
      << "Pathogenic", ",", "benign" >>,
      << "benign", ",", "PATHOGENIC" >> }

InitSkip ==
    /\ InitRun
    /\ call \in {[fn |-> "skip_record",
                  arg |-> [clinical_significance |-> sig, allowed_arg |-> a,
                           nsv_id |-> nsv, consequence_type |-> ct, allele_origin |-> o],
                  allowed |-> <<>>, skip |-> FALSE, report |-> NewReport(EmptyDict),
                  done |-> FALSE] :
                    sig \in SkipSignificances, a \in SkipAllowedArgs,
                    nsv \in {None, "nsv1"},
                    ct \in {NoConsequence, ConsequenceType("ENSG1", "missense_variant")},
                    o \in {"germline", "somatic", "foo"}}

\* launch_pipeline splits the argument; skip_record is called on one tuple
\* with a fresh report.
CallSkipRecord ==
    /\ call.fn = "skip_record"
    /\ ~call.done
    /\ LET allowed == split_allowed(call.arg.allowed_arg)
           r == skip_record(
                    ClinvarRecord("RCV1", call.arg.clinical_significance, <<>>, <<>>, <<>>),
                    Measure(None, call.arg.nsv_id, "1", 100, 100, "A", "RCV1"),
                    call.arg.consequence_type, call.arg.allele_origin,
                    allowed, call.report)
       IN  call' = [call EXCEPT !.allowed = allowed, !.skip = r.skip,
                                !.report = r.report, !.done = TRUE]
    /\ UNCHANGED run_vars

SpecSkip == InitSkip /\ [][CallSkipRecord]_vars

\* ---- process_consequence_type_file_tsv ----

\* The most lines of a gene/consequence mapping file.
MaxLines == 2

SnpLines ==
    { << "rs1", "\t", "X", "\t", "ENSG1", "\t", "Y", "\t", "missense_variant", "\t", "Z", "\n" >>,
      << "rs1", "\t", "X", "\t", "ENSG2", "\t", "Y", "\t", "stop_gained", "\t", "Z", "\n" >>,
      << "rs2", "\t", "X", "\t", "ENSG1", "\t", "Y", "\t", "stop_gained", "\t", "Z", "\t", "W", "\n" >>,
      << "rs3", "\t", "X", "\t", "NA", "\t", "Y", "\t", "intron_variant", "\t", "Z", "\n" >>,
      << "rs4", "\t", "X", "\t", "ENSG4", "\t", "Y", "\t", "intron_variant", "\n" >>,
      << "rs5", "\t", "X", "\t", "ENSG5", "\t", "Y", "\t", "stop_lost", "\t", "\n" >>,
      << "#", "rs6", "\t", "X", "\t", "ENSG6", "\t", "Y", "\t", "stop_lost", "\t", "Z", "\n" >>,
      << "\n" >> }

InitSnpFile ==
    /\ InitRun
    /\ call \in {[fn |-> "process_consequence_type_file_tsv", arg |-> f,
                  ret |-> EmptyDict, done |-> FALSE] :
                    f \in SeqsUpTo(SnpLines, MaxLines)}

CallProcessConsequenceTypeFile ==
    /\ call.fn = "process_consequence_type_file_tsv"
    /\ ~call.done
    /\ call' = [call EXCEPT !.ret = process_consequence_type_file_tsv(call.arg),
                            !.done = TRUE]
    /\ UNCHANGED run_vars

SpecSnpFile == InitSnpFile /\ [][CallProcessConsequenceTypeFile]_vars

-----------------------------------------------------------------------------
(* C4 *)

\* The coordinate key "{chr}:{start}-{stop}:1/{alt or '-'}" of a measure.
C4_CoordinateKey(m) ==
    m.chr \o ":" \o ToString(m.start) \o "-" \o ToString(m.stop) \o ":1/"
    \o (IF m.alt = None THEN "-" ELSE m.alt)

\* The keys of a measure in the order rs id, nsv id, coordinate key, accession.
C4_Keys(m) == << m.rs_id, m.nsv_id, C4_CoordinateKey(m), m.clinvar_record.accession >>

\* C4: get_consequence_types returns the list of the first of rs id, nsv id,
\* coordinate key, accession that is present in the record and a key of the
\* table, and [absent] when there is none; the result is never empty.
C4_LookupOrder ==
    (call.fn = "get_consequence_types" /\ call.done)
    => LET m     == call.arg.clinvar_record_measure
           table == call.arg.consequence_type_dict
           hits  == {i \in 1..4 : C4_Keys(m)[i] # None /\ C4_Keys(m)[i] \in DOMAIN table}
       IN  /\ call.ret # <<>>
           /\ hits = {} => call.ret = << NoConsequence >>
           /\ hits # {} => \E i \in hits :
                               /\ \A j \in hits : i <= j
                               /\ call.ret = table[C4_Keys(m)[i]]

\* A lookup that passed over an rs id that is no key and an absent nsv id and
\* returned the list of the coordinate key, although the accession is a key.
C4_Witness ==
    /\ call.fn = "get_consequence_types" /\ call.done
    /\ call.arg.clinvar_record_measure.rs_id = "rs9"
    /\ call.arg.clinvar_record_measure.nsv_id = None
    /\ "RCV1" \in DOMAIN call.arg.consequence_type_dict
    /\ "rs1" \in DOMAIN call.arg.consequence_type_dict
    /\ call.arg.clinvar_record_measure.clinvar_record.accession = "RCV1"
    /\ call.ret = << ConsequenceType("ENSG4", "stop_lost") >>

-----------------------------------------------------------------------------
(* C6 *)

GermlineVocabulary ==
    {"biparental", "de novo", "germline", "inherited", "maternal", "not applicable",
     "not provided", "paternal", "uniparental", "unknown"}

\* C6: the result of convert_allele_origins depends only on the set of the
\* case-folded raw strings: it is "somatic" if that is in the set, then
\* "germline" if the set meets the germline vocabulary; and applying the
\* function to its own result returns that result.
C6_OriginsCanonical ==
    call.fn = "convert_allele_origins"
    => LET folded == {Lower(call.arg[i]) : i \in 1..Len(call.arg)}
           expected == (IF "somatic" \in folded THEN << "somatic" >> ELSE <<>>)
                       \o (IF folded \cap GermlineVocabulary # {}
                           THEN << "germline" >> ELSE <<>>)
       IN  \A i \in 1..Len(call.rets) : call.rets[i] = expected

\* Raw origins in the order germline, somatic, one of them capitalised, were
\* classified as [somatic, germline], and so was that result.
C6_Witness ==
    /\ call.fn = "convert_allele_origins"
    /\ call.arg = << "germline", "Somatic", "germline" >>
    /\ call.rets = << << "somatic", "germline" >>, << "somatic", "germline" >> >>

-----------------------------------------------------------------------------
(* C9 *)

\* C9 (as stated): skip_record skips a tuple for its significance iff no entry
\* of the allowed list equals the significance ignoring letter case.  (With a
\* consequence and a recognised origin, skip_record skips for nothing else.)
C9_CaseInsensitive ==
    (/\ call.fn = "skip_record" /\ call.done
     /\ call.arg.consequence_type # NoConsequence
     /\ call.arg.allele_origin \in {"germline", "somatic"})
    => (call.skip <=> ~InAllowedSet(call.arg.clinical_significance, call.allowed))

-----------------------------------------------------------------------------
(* C10 *)

\* A line without its line terminator.
C10_Chomp(line) ==
    IF line # <<>> /\ line[Len(line)] = "\n" THEN SubSeq(line, 1, Len(line) - 1) ELSE line

\* The tab-separated fields of a line.
C10_Fields(line) == split(C10_Chomp(line), "\t")

\* The line has at least 6 fields and a gene id other than "NA".
C10_Contributes(line) ==
    Len(C10_Fields(line)) >= 6 /\ Str(C10_Fields(line)[3]) # "NA"

\* C10 (as stated): the table maps each variant key to the list, in file
\* order, of (field 2, field 4) of exactly the lines with at least 6
\* tab-separated fields and a gene id other than "NA"; no key has an empty list.
C10_TableOfFile ==
    (call.fn = "process_consequence_type_file_tsv" /\ call.done)
    => LET good == SelectSeq(call.arg, C10_Contributes)
           keys == {Str(C10_Fields(good[i])[1]) : i \in 1..Len(good)}
           OfKey(k) ==
               LET HasKey(line) == Str(C10_Fields(line)[1]) = k
                   ls == SelectSeq(good, HasKey)
               IN  [i \in 1..Len(ls) |->
                       ConsequenceType(Str(C10_Fields(ls[i])[3]), Str(C10_Fields(ls[i])[5]))]
       IN  /\ DOMAIN call.ret = keys
           /\ \A k \in keys : call.ret[k] = OfKey(k) /\ call.ret[k] # <<>>

-----------------------------------------------------------------------------
(* load_efo_mapping, a single call                                         *)

\* The most lines of an EFO mapping file.
MaxEfoLines == 2

EfoLines ==
    { << "#", "clinvar_trait", "\t", "efo", "\n" >>,
      << "\n" >>,
      << " ", "\n" >>,
      << "long qt syndrome", "\t", "EFO:0000768", "\t", "Long QT syndrome", "\n" >>,
      << "Alpha", "\t", "EFO:1", "|", "EFO:2", "\t", "alpha 1", "|", "alpha 2", "\n" >>,
      << "alpha", "\t", "EFO:5", "\n" >>,
      << "beta", "\t", "EFO:3", "|", "EFO:4", "\t", "beta 3", "\n" >>,
      << "delta", "\t", "EFO:6", "\t", "delta 6", "|", "delta 7", "\n" >>,
      << "gamma", "\n" >> }

InitEfoFile ==
    /\ InitRun
    /\ call \in {[fn |-> "load_efo_mapping", arg |-> f, raised |-> FALSE,
                  ret |-> EmptyDict, done |-> FALSE] :
                    f \in SeqsUpTo(EfoLines, MaxEfoLines)}

CallLoadEfoMapping ==
    /\ call.fn = "load_efo_mapping"
    /\ ~call.done
    /\ LET r == load_efo_mapping(call.arg)
       IN  call' = [call EXCEPT !.raised = r.raised,
                                !.ret = IF r.raised THEN EmptyDict ELSE r.trait_2_efo,
                                !.done = TRUE]
    /\ UNCHANGED run_vars

SpecEfoFile == InitEfoFile /\ [][CallLoadEfoMapping]_vars

-----------------------------------------------------------------------------
(* C11 *)

\* The line is neither blank nor a '#' comment.
C11_IsData(line) ==
    /\ \E i \in 1..Len(line) : ~IsSpace(line[i])
    /\ Head(line) # "#"

\* The tab-separated fields of a line.
C11_Fields(line) == split(C10_Chomp(line), "\t")

\* The line is a trait name with no ontology-id field.
C11_NameOnly(line) == Len(C11_Fields(line)) < 2

\* One (id, label) pair per id of the id list of a line, in order; the label
\* is the entry of the label field at the position of the id, and absent when
\* there is none.
C11_Pairs(line) ==
    LET f      == C11_Fields(line)
        ids    == split(f[2], "|")
        labels == IF Len(f) > 2 THEN split(f[3], "|") ELSE <<>>
    IN  [i \in 1..Len(ids) |->
            << Str(ids[i]), IF i <= Len(labels) THEN Str(labels[i]) ELSE None >>]

\* The pairs of the lines of a file that have the lower-cased name k.
RECURSIVE C11_PairsOfName(_, _)
C11_PairsOfName(k, lines) ==
    IF lines = <<>> THEN <<>>
    ELSE (IF Lower(Str(C11_Fields(Head(lines))[1])) = k
          THEN C11_Pairs(Head(lines)) ELSE <<>>)
         \o C11_PairsOfName(k, Tail(lines))

\* C11 (as stated): load_efo_mapping fails iff some non-blank, non-'#' line is
\* a trait name with no ontology-id field; otherwise the entry of each
\* lower-cased trait name is, line by line, one (id, label) pair per id of the
\* line's id list, in order, with the positionally aligned label or no label,
\* so that no listed id is lost.
C11_EfoMappingOfFile ==
    (call.fn = "load_efo_mapping" /\ call.done)
    => LET data == SelectSeq(call.arg, C11_IsData)
           bad  == \E i \in 1..Len(data) : C11_NameOnly(data[i])
           keys == {Lower(Str(C11_Fields(data[i])[1])) : i \in 1..Len(data)}
       IN  /\ call.raised <=> bad
           /\ ~bad => /\ DOMAIN call.ret = keys
                      /\ \A k \in keys : call.ret[k] = C11_PairsOfName(k, data)

-----------------------------------------------------------------------------
(* C12 *)

\* The tuples of a record that the skip filter lets through: those of the
\* measures with a consequence, when the lower-cased significance is an entry
\* of the allowed list (the classified origins are germline or somatic).
C12_Survivors(rec) ==
    IF InList(Lower(rec.clinical_significance), allowed_clinical_significance)
    THEN Sum([i \in 1..Len(rec.measures) |->
                 IF LookupFails(rec.measures[i]) THEN 0 ELSE NTuples(rec, rec.measures[i])])
    ELSE 0

\* The provenance row of an emitted evidence record.
C12_Row(ev_string) ==
    << ev_string.accession, ev_string.rs_id,
       ev_string.trait.clinvar_name, ev_string.trait.ontology_id >>

\* C12: a validation failure is fatal.  Nothing happens after the run failed
\* (no record is processed, no output is written, and output only follows a
\* run that did not fail); the emitted list and the provenance rows only grow,
\* always have the same length and agree row by row; a record all of whose
\* evidence strings validate appends every surviving tuple to both, and the
\* step that fails appends fewer than the surviving tuples: the failing record
\* and the tuples after it are in neither list.
C12_ValidationFatal ==
    [][ /\ pc # "failed"
        /\ pc' = "done" => pc = "run"
        /\ Len(report'.evidence_string_list) = Len(report'.evidence_list)
        /\ \A i \in 1..Len(report'.evidence_list) :
               report'.evidence_list[i] = C12_Row(report'.evidence_string_list[i])
        /\ Len(report.evidence_string_list) <= Len(report'.evidence_string_list)
        /\ SubSeq(report'.evidence_string_list, 1, Len(report.evidence_string_list))
               = report.evidence_string_list
        /\ SubSeq(report'.evidence_list, 1, Len(report.evidence_list))
               = report.evidence_list
        /\ Processed =>
               /\ pc' \in {"run", "failed"}
               /\ pc' = "run"    => NewEvidence = C12_Survivors(clinvar_record')
               /\ pc' = "failed" => NewEvidence < C12_Survivors(clinvar_record') ]_vars

\* The run failed at the second evidence string of its second record: the two
\* of the first record and the first of the second are in both lists, the
\* second record has more surviving tuples and is not counted as processed.
C12_Witness ==
    /\ pc = "failed"
    /\ report.counters.record_counter = 2
    /\ report.counters.n_processed_clinvar_records = 1
    /\ Len(report.evidence_string_list) = 3
    /\ Len(report.evidence_list) = 3
    /\ C12_Survivors(clinvar_record) >= 2

-----------------------------------------------------------------------------
(* C13 *)

\* The counters and map entries of a report that differ between old and new.
C13_Changed(old, new) ==
    {<< "counters", n >> : n \in {x \in DOMAIN old.counters : new.counters[x] # old.counters[x]}}
    \cup
    {<< "n_unrecognised_allele_origin", k >> :
        k \in {x \in DOMAIN old.n_unrecognised_allele_origin
                       \cup DOMAIN new.n_unrecognised_allele_origin :
                  Count(new.n_unrecognised_allele_origin, x)
                      # Count(old.n_unrecognised_allele_origin, x)}}
    \cup
    {<< "unmapped_traits", k >> :
        k \in {x \in DOMAIN old.unmapped_traits \cup DOMAIN new.unmapped_traits :
                  Count(new.unmapped_traits, x) # Count(old.unmapped_traits, x)}}

\* C13: one call of skip_record on a tuple changes at most one counter or map
\* entry of the report, nothing else of it, and nothing at all when it returns
\* false; with a disallowed significance and an absent consequence
\* no_variant_to_ensg_mapping is unchanged, and with an allowed significance
\* and an absent consequence n_unrecognised_allele_origin is unchanged.
C13_FirstMatchWins ==
    (call.fn = "skip_record" /\ call.done)
    => LET old     == NewReport(EmptyDict)
           new     == call.report
           changed == C13_Changed(old, new)
           allowed == InAllowedSet(call.arg.clinical_significance, call.allowed)
           absent  == call.arg.consequence_type = NoConsequence
       IN  /\ Cardinality(changed) <= 1
           /\ [new EXCEPT !.counters = old.counters,
                          !.n_unrecognised_allele_origin = old.n_unrecognised_allele_origin]
                  = old
           /\ ~call.skip => new = old
           /\ (~allowed /\ absent)
                  => new.counters.no_variant_to_ensg_mapping
                         = old.counters.no_variant_to_ensg_mapping
           /\ (allowed /\ absent)
                  => new.n_unrecognised_allele_origin = old.n_unrecognised_allele_origin
           /\ changed \subseteq
                  IF ~InList(Lower(call.arg.clinical_significance), call.allowed)
                  THEN {<< "counters", "n_nsv_skipped_clin_sig" >>}
                  ELSE IF absent
                  THEN {<< "counters", "no_variant_to_ensg_mapping" >>}
                  ELSE {<< "n_unrecognised_allele_origin", call.arg.allele_origin >>}

\* A tuple that matches all three tests (a significance outside the default
\* list, on a measure with an nsv id; no consequence; an origin that is neither
\* germline nor somatic) was skipped and only the significance skip counted.
C13_Witness ==
    /\ call.fn = "skip_record" /\ call.done
    /\ call.arg.clinical_significance = "affects"
    /\ call.arg.allowed_arg = <<>>
    /\ call.arg.nsv_id = "nsv1"
    /\ call.arg.consequence_type = NoConsequence
    /\ call.arg.allele_origin = "foo"
    /\ call.skip
    /\ call.report.counters.n_nsv_skipped_clin_sig = 1
    /\ call.report.counters.no_variant_to_ensg_mapping = 0
    /\ call.report.n_unrecognised_allele_origin = EmptyDict

-----------------------------------------------------------------------------
(* C14 *)

\* C14 (as stated): in every state of a run n_multiple_evidence_strings <=
\* n_processed_clinvar_records <= record_counter, and one input record,
\* however many measures it has, adds at most 1 to each of the first two.
C14_RecordCounters ==
    [][ /\ report'.counters.n_multiple_evidence_strings
               <= report'.counters.n_processed_clinvar_records
        /\ report'.counters.n_processed_clinvar_records
               <= report'.counters.record_counter
        /\ Processed => /\ Grows("n_processed_clinvar_records") <= 1
                        /\ Grows("n_multiple_evidence_strings") <= 1 ]_vars

-----------------------------------------------------------------------------
(* C15 *)

\* The evidence records emitted for a record that is the first of a run with
\* the loaded tables, when all of them validate.
C15_EmittedAlone(rec) ==
    record_body(rec, mappings, allowed_clinical_significance,
                NewReport(mappings.trait_2_efo), 0).report.evidence_string_list

\* C15: processing records leaves the consequence table and the trait mapping
\* as loaded; a used trait name leaves only the report's copy and still
\* resolves in the mapping; and the evidence records emitted for a record, in
\* order, are those emitted for it as the first record of the run, whatever
\* was processed before.
C15_LookupTablesFrame ==
    [][ /\ pc = "run" => mappings' = mappings
        /\ Processed =>
               /\ DOMAIN report'.trait_mappings \subseteq DOMAIN report.trait_mappings
               /\ \A i \in 1..Len(report'.evidence_string_list) :
                      LET name == report'.evidence_string_list[i].trait.clinvar_name
                      IN  /\ name \notin DOMAIN report'.trait_mappings
                          /\ map_efo(mappings'.trait_2_efo, << name >>).mappings # NoList
        /\ ProcessedValid =>
               SubSeq(report'.evidence_string_list,
                      Len(report.evidence_string_list) + 1,
                      Len(report'.evidence_string_list))
                   = C15_EmittedAlone(clinvar_record') ]_vars

\* Two records were processed, each emitted one evidence record, both for the
\* trait name "long qt syndrome", which left the report's copy with the first.
C15_Witness ==
    /\ pc = "run"
    /\ report.counters.record_counter = 2
    /\ Len(report.evidence_string_list) = 2
    /\ Len(C15_EmittedAlone(clinvar_record)) = 1
    /\ report.evidence_string_list[1].trait.clinvar_name = "long qt syndrome"
    /\ report.evidence_string_list[2].trait.clinvar_name = "long qt syndrome"
    /\ "long qt syndrome" \notin DOMAIN report.trait_mappings
    /\ "long qt syndrome" \in DOMAIN mappings.trait_2_efo

====
